---------------------------- MODULE Spec2Model ----------------------------
(* A model of package goarabic (src/stringutils.go): contextual glyph      *)
(* shaping (ToGlyph / getCharGlyph), rune-wise reversal (Reverse), the     *)
(* bidi reordering of FixBidiText with its line wrapping, and the lazy,    *)
(* unguarded initialisation of the package-level isArabic map.             *)
(*                                                                         *)
(* Text is a sequence of code points (Go's []rune view of a string).       *)
EXTENDS Integers, Sequences, FiniteSets, TLC

VARIABLES
    text,             \* the argument of the call under examination
    maxCharsPerLine,  \* FixBidiText's second argument
    op,               \* which operation has produced `out` ("idle" before a call)
    out,              \* the value returned by the call
    out2,             \* the value returned when the operation is applied to `out`
    isArabic,         \* the package variable isArabic: nil, or the ranges stored so far
    pc,               \* per goroutine: its position inside FixBidiText
    word,             \* per goroutine: the one-word text it calls FixBidiText with
    seen,             \* per goroutine: the isArabicWord and isEnglish flags its reads produced
    makeCount,        \* how many times `isArabic = make(...)` has executed
    crashed           \* the runtime aborted on a concurrent map access

vars == <<text, maxCharsPerLine, op, out, out2, isArabic, pc, word, seen, makeCount, crashed>>

-----------------------------------------------------------------------------
(* Bounds of the model.                                                    *)

\* longest text handed to ToGlyph / Reverse
MaxLen == 3

\* most words in a text handed to FixBidiText
MaxWords == 3

\* largest maxCharsPerLine handed to FixBidiText
MaxWidth == 4

\* goroutines calling FixBidiText at the same time
NumThreads == 2

-----------------------------------------------------------------------------
(* The Letter Table.  The file that declares Harf, alphabet and            *)
(* beggining_after is not among the sources; the entries below follow the  *)
(* data model of the specification (five code points per letter, a form    *)
(* that does not exist repeats another recorded value) with the Unicode    *)
(* presentation forms of each letter.                                      *)

Harf(u, iso, beg, med, fin) ==
    [Unicode |-> u, Isolated |-> iso, Beggining |-> beg, Medium |-> med, Final |-> fin]

ALEF == Harf(\h0627, \hFE8D, \h0627, \hFE8E, \hFE8E)
BEH  == Harf(\h0628, \hFE8F, \hFE91, \hFE92, \hFE90)
TEH  == Harf(\h062A, \hFE95, \hFE97, \hFE98, \hFE96)
DAL  == Harf(\h062F, \hFEA9, \h062F, \hFEAA, \hFEAA)
YEH  == Harf(\h064A, \hFEF1, \hFEF3, \hFEF4, \hFEF2)

alphabet == <<ALEF, BEH, TEH, DAL, YEH>>

\* letters that do not connect to the letter that follows them
beggining_after == {ALEF, DAL}

-----------------------------------------------------------------------------
(* Shaping.                                                                *)

\* equals as it would be with the `case c.Final` arm left out
equalsNoFinal(c, char) ==
    \/ char = c.Unicode
    \/ char = c.Beggining
    \/ char = c.Isolated
    \/ char = c.Medium

\* func (c *Harf) equals(char rune) bool
equals(c, char) ==
    \/ char = c.Unicode
    \/ char = c.Beggining
    \/ char = c.Isolated
    \/ char = c.Medium
    \/ char = c.Final

\* the indices of the alphabet entries that match char, in table order
Matches(char) == {i \in DOMAIN alphabet : equals(alphabet[i], char)}

MinOf(S) == CHOOSE m \in S : \A k \in S : m <= k

\* func getHarf(char rune) Harf: the first matching entry, else a Harf made
\* of char itself (its Beggining field is left at the zero value)
getHarf(char) ==
    IF Matches(char) # {}
    THEN alphabet[MinOf(Matches(char))]
    ELSE [Unicode |-> char, Isolated |-> char, Beggining |-> 0, Medium |-> char, Final |-> char]

\* getCharGlyph as it would be testing previousIn before nextIn and never
\* consulting beggining_after
getCharGlyphFinalFirst(previousChar, currentChar, nextChar) ==
    LET previousIn == \E i \in DOMAIN alphabet : equals(alphabet[i], previousChar)
        nextIn     == \E i \in DOMAIN alphabet : equals(alphabet[i], nextChar)
    IN  IF Matches(currentChar) = {} THEN currentChar
        ELSE IF previousIn THEN getHarf(currentChar).Final
        ELSE IF nextIn THEN getHarf(currentChar).Beggining
        ELSE getHarf(currentChar).Isolated

\* getCharGlyph as it would be without the `continue` on entries that do
\* not match: a code point outside the alphabet reaches getHarf's fallback
getCharGlyphDropsUnknown(previousChar, currentChar, nextChar) ==
    LET previousIn == \E i \in DOMAIN alphabet : equals(alphabet[i], previousChar)
        nextIn     == \E i \in DOMAIN alphabet : equals(alphabet[i], nextChar)
        afterNonJoining == \E s \in beggining_after : equals(s, previousChar)
    IN  IF previousIn /\ nextIn
        THEN IF afterNonJoining THEN getHarf(currentChar).Beggining
             ELSE getHarf(currentChar).Medium
        ELSE IF nextIn THEN getHarf(currentChar).Beggining
        ELSE IF previousIn
        THEN IF afterNonJoining THEN getHarf(currentChar).Isolated
             ELSE getHarf(currentChar).Final
        ELSE getHarf(currentChar).Isolated

\* func getCharGlyph(previousChar, currentChar, nextChar rune) rune: both
\* neighbours are looked up first; the first entry matching currentChar
\* decides, and a code point matching none is returned as it is
getCharGlyph(previousChar, currentChar, nextChar) ==
    LET previousIn == \E i \in DOMAIN alphabet : equals(alphabet[i], previousChar)
        nextIn     == \E i \in DOMAIN alphabet : equals(alphabet[i], nextChar)
        afterNonJoining == \E s \in beggining_after : equals(s, previousChar)
    IN  IF Matches(currentChar) = {} THEN currentChar
        ELSE IF previousIn /\ nextIn
        THEN IF afterNonJoining THEN getHarf(currentChar).Beggining
             ELSE getHarf(currentChar).Medium
        ELSE IF nextIn THEN getHarf(currentChar).Beggining
        ELSE IF previousIn
        THEN IF afterNonJoining THEN getHarf(currentChar).Isolated
             ELSE getHarf(currentChar).Final
        ELSE getHarf(currentChar).Isolated

\* the loop of ToGlyph, i counting the runes from 0 as in the source
RECURSIVE ToGlyphLoop(_, _, _)
ToGlyphLoop(runes, i, newText) ==
    IF i >= Len(runes) THEN newText
    ELSE LET prev  == IF (i - 1) < 0 THEN 0 ELSE runes[(i - 1) + 1]
             next  == IF (i + 1) <= Len(runes) - 1 THEN runes[(i + 1) + 1] ELSE 0
             glyph == getCharGlyph(prev, runes[i + 1], next)
         IN  ToGlyphLoop(runes, i + 1, Append(newText, glyph))

\* ToGlyph as it would be with the loop ending one rune early
ToGlyphSkipsLast(t) == ToGlyphLoop(SubSeq(t, 1, Len(t) - 1), 0, <<>>)

\* func ToGlyph(text string) string
ToGlyph(t) == ToGlyphLoop(t, 0, <<>>)

-----------------------------------------------------------------------------
(* Reversal.                                                               *)

\* r[i], r[j] = r[j], r[i] with 0-based i, j
Swap(r, i, j) == [r EXCEPT ![i + 1] = r[j + 1], ![j + 1] = r[i + 1]]

RECURSIVE ReverseLoop(_, _, _, _)
ReverseLoop(r, i, j, stop) ==
    IF i < stop THEN ReverseLoop(Swap(r, i, j), i + 1, j - 1, stop) ELSE r

\* Reverse as it would be with the loop bound len(r)/2 - 1
ReverseStopsEarly(s) == ReverseLoop(s, 0, Len(s) - 1, (Len(s) \div 2) - 1)

\* func Reverse(s string) string
Reverse(s) == ReverseLoop(s, 0, Len(s) - 1, Len(s) \div 2)

-----------------------------------------------------------------------------
(* Library functions FixBidiText calls.                                    *)

\* unicode.IsSpace: the white-space code points strings.Fields splits at
isSpace(r) ==
    \/ r \in {9, 10, 11, 12, 13, 32, \h85, \hA0, \h1680, \h2028, \h2029, \h202F, \h205F, \h3000}
    \/ (r >= \h2000 /\ r <= \h200A)

\* the table unicode.Nd (decimal digits) of Unicode 15.0, as <<lo, hi>>
NdRanges ==
    <<
       <<\h30, \h39>>, <<\h660, \h669>>, <<\h6F0, \h6F9>>, <<\h7C0, \h7C9>>,
       <<\h966, \h96F>>, <<\h9E6, \h9EF>>, <<\hA66, \hA6F>>, <<\hAE6, \hAEF>>,
       <<\hB66, \hB6F>>, <<\hBE6, \hBEF>>, <<\hC66, \hC6F>>, <<\hCE6, \hCEF>>,
       <<\hD66, \hD6F>>, <<\hDE6, \hDEF>>, <<\hE50, \hE59>>, <<\hED0, \hED9>>,
       <<\hF20, \hF29>>, <<\h1040, \h1049>>, <<\h1090, \h1099>>, <<\h17E0, \h17E9>>,
       <<\h1810, \h1819>>, <<\h1946, \h194F>>, <<\h19D0, \h19D9>>, <<\h1A80, \h1A89>>,
       <<\h1A90, \h1A99>>, <<\h1B50, \h1B59>>, <<\h1BB0, \h1BB9>>, <<\h1C40, \h1C49>>,
       <<\h1C50, \h1C59>>, <<\hA620, \hA629>>, <<\hA8D0, \hA8D9>>, <<\hA900, \hA909>>,
       <<\hA9D0, \hA9D9>>, <<\hA9F0, \hA9F9>>, <<\hAA50, \hAA59>>, <<\hABF0, \hABF9>>,
       <<\hFF10, \hFF19>>, <<\h104A0, \h104A9>>, <<\h10D30, \h10D39>>, <<\h11066, \h1106F>>,
       <<\h110F0, \h110F9>>, <<\h11136, \h1113F>>, <<\h111D0, \h111D9>>, <<\h112F0, \h112F9>>,
       <<\h11450, \h11459>>, <<\h114D0, \h114D9>>, <<\h11650, \h11659>>, <<\h116C0, \h116C9>>,
       <<\h11730, \h11739>>, <<\h118E0, \h118E9>>, <<\h11950, \h11959>>, <<\h11C50, \h11C59>>,
       <<\h11D50, \h11D59>>, <<\h11DA0, \h11DA9>>, <<\h11F50, \h11F59>>, <<\h16A60, \h16A69>>,
       <<\h16AC0, \h16AC9>>, <<\h16B50, \h16B59>>, <<\h1D7CE, \h1D7FF>>, <<\h1E140, \h1E149>>,
       <<\h1E2F0, \h1E2F9>>, <<\h1E4F0, \h1E4F9>>, <<\h1E950, \h1E959>>, <<\h1FBF0, \h1FBF9>>
    >>

\* unicode.IsDigit: the code point is in category Nd
IsDigit(r) == \E k \in DOMAIN NdRanges : r >= NdRanges[k][1] /\ r <= NdRanges[k][2]

\* strings.Fields: the maximal runs of non-space code points, in order
RECURSIVE FieldsLoop(_, _, _, _)
FieldsLoop(s, i, cur, acc) ==
    IF i > Len(s) THEN (IF cur = <<>> THEN acc ELSE Append(acc, cur))
    ELSE IF isSpace(s[i])
         THEN FieldsLoop(s, i + 1, <<>>, IF cur = <<>> THEN acc ELSE Append(acc, cur))
         ELSE FieldsLoop(s, i + 1, Append(cur, s[i]), acc)

Fields(s) == FieldsLoop(s, 1, <<>>, <<>>)

\* strings.Join(elems, sep)
RECURSIVE JoinLoop(_, _, _, _)
JoinLoop(elems, sep, i, acc) ==
    IF i > Len(elems) THEN acc
    ELSE JoinLoop(elems, sep, i + 1, IF i = 1 THEN elems[i] ELSE acc \o sep \o elems[i])

Join(elems, sep) == JoinLoop(elems, sep, 1, <<>>)

\* strings.TrimSpace
RECURSIVE TrimLeft(_)
TrimLeft(s) == IF s # <<>> /\ isSpace(Head(s)) THEN TrimLeft(Tail(s)) ELSE s

RECURSIVE TrimRight(_)
TrimRight(s) ==
    IF s # <<>> /\ isSpace(s[Len(s)]) THEN TrimRight(SubSeq(s, 1, Len(s) - 1)) ELSE s

TrimSpace(s) == TrimRight(TrimLeft(s))

-----------------------------------------------------------------------------
(* The isArabic map.  The map is represented by the script ranges whose    *)
(* code points have been stored in it; made = FALSE is the nil map.        *)

\* the six loops of fillIsArabicMap, in source order
ArabicRanges ==
    << [lo |-> \h0600,  hi |-> \h06FF],
       [lo |-> \h0750,  hi |-> \h077F],
       [lo |-> \h08A0,  hi |-> \h08FF],
       [lo |-> \hFB50,  hi |-> \hFDFF],
       [lo |-> \hFE70,  hi |-> \hFEFF],
       [lo |-> \h10E60, hi |-> \h10E7F] >>

\* var isArabic map[rune]bool
NilMap   == [made |-> FALSE, filled |-> {}]

EmptyMap == [made |-> TRUE, filled |-> {}]

FullMap  == [made |-> TRUE, filled |-> DOMAIN ArabicRanges]

\* the read isArabic[r]: a missing key, and any key of a nil map, reads false
Lookup(m, r) ==
    \E k \in m.filled : r >= ArabicRanges[k].lo /\ r <= ArabicRanges[k].hi

\* func fillIsArabicMap(), run without interruption
fillIsArabicMap(m) == IF m # NilMap THEN m ELSE FullMap

\* func isNumeric(r rune) bool
isNumeric(r) == IsDigit(r) \/ (r >= \h0660 /\ r <= \h0669)

-----------------------------------------------------------------------------
(* Line wrapping.                                                          *)

\* the loop of splitIntoLinesByChars over words[k..]; st holds lines,
\* currentLine and currentLineCount
RECURSIVE SplitLoop(_, _, _, _)
SplitLoop(words, k, st, maxChars) ==
    IF k > Len(words) THEN st
    ELSE LET w       == words[k]
             wordLen == Len(w) + 1
             flush   == st.count > 0 /\ st.count + wordLen > maxChars
             s1      == IF flush
                        THEN [lines |-> Append(st.lines, TrimSpace(st.cur)), cur |-> <<>>, count |-> 0]
                        ELSE st
             s2      == IF s1.count = 0
                        THEN [s1 EXCEPT !.cur = @ \o w, !.count = Len(w)]
                        ELSE [s1 EXCEPT !.cur = @ \o <<32>> \o w, !.count = @ + wordLen]
         IN  SplitLoop(words, k + 1, s2, maxChars)

\* splitIntoLinesByChars as it would be closing a line one code point late
splitIntoLinesOffByOne(t, maxChars) ==
    LET st == SplitLoop(Fields(t), 1, [lines |-> <<>>, cur |-> <<>>, count |-> 0], maxChars + 1)
    IN  IF Len(st.cur) > 0 THEN Append(st.lines, TrimSpace(st.cur)) ELSE st.lines

\* func splitIntoLinesByChars(text string, maxChars int) []string
splitIntoLinesByChars(t, maxChars) ==
    LET st == SplitLoop(Fields(t), 1, [lines |-> <<>>, cur |-> <<>>, count |-> 0], maxChars)
    IN  IF Len(st.cur) > 0 THEN Append(st.lines, TrimSpace(st.cur)) ELSE st.lines

-----------------------------------------------------------------------------
(* Bidi reordering.                                                        *)

\* func reverseSlice(slice []string) applied to s[lo:hi] (0-based, hi excluded)
reverseSlice(s, lo, hi) ==
    [k \in 1..Len(s) |-> IF k >= lo + 1 /\ k <= hi THEN s[(lo + 1) + hi - k] ELSE s[k]]

\* the first loop over a word's runes: isArabicWord and isNumericWord
isArabicWord(w, m) == \E k \in 1..Len(w) : Lookup(m, w[k])

isNumericWord(w) == \A k \in 1..Len(w) : isNumeric(w[k])

\* the switch as it would be with the Arabic case tested first
processWordArabicFirst(w, m) ==
    IF isArabicWord(w, m) THEN Reverse(ToGlyph(w))
    ELSE w

\* the switch of FixBidiText over one word
processWord(w, m) ==
    IF isNumericWord(w) THEN w
    ELSE IF isArabicWord(w, m) THEN Reverse(ToGlyph(w))
    ELSE w

\* "Reverse entire line for RTL flow"
RECURSIVE ReverseWordsLoop(_, _, _)
ReverseWordsLoop(pw, i, j) ==
    IF i < j THEN ReverseWordsLoop(Swap(pw, i, j), i + 1, j - 1) ELSE pw

\* the isEnglish flag of the second loop
isEnglish(w, m) == ~ \E k \in 1..Len(w) : Lookup(m, w[k]) \/ isNumeric(w[k])

\* "Reverse back consecutive English words": the loop over i with start;
\* first the loop as it would be without `start = -1` after a closed run
RECURSIVE RescanLoop(_, _, _, _)
RescanLoopKeepsStart(pw, i, start, m) ==
    IF i >= Len(pw)
    THEN (IF start # -1 THEN reverseSlice(pw, start, Len(pw)) ELSE pw)
    ELSE IF isEnglish(pw[i + 1], m)
         THEN RescanLoop(pw, i + 1, IF start = -1 THEN i ELSE start, m)
         ELSE IF start # -1
              THEN RescanLoop(reverseSlice(pw, start, i), i + 1, start, m)
              ELSE RescanLoop(pw, i + 1, start, m)

\* the loop as written in the source
RescanLoop(pw, i, start, m) ==
    IF i >= Len(pw)
    THEN (IF start # -1 THEN reverseSlice(pw, start, Len(pw)) ELSE pw)
    ELSE IF isEnglish(pw[i + 1], m)
         THEN RescanLoop(pw, i + 1, IF start = -1 THEN i ELSE start, m)
         ELSE IF start # -1
              THEN RescanLoop(reverseSlice(pw, start, i), i + 1, -1, m)
              ELSE RescanLoop(pw, i + 1, start, m)

\* the body of the loop over lines
processLine(line, m) ==
    LET words          == Fields(line)
        processedWords == [k \in 1..Len(words) |-> processWord(words[k], m)]
        reversed       == ReverseWordsLoop(processedWords, 0, Len(processedWords) - 1)
    IN  Join(RescanLoop(reversed, 0, -1, m), <<32>>)

\* func FixBidiText(text string, maxCharsPerLine int) string, reading map m
FixBidiText(t, maxChars, m) ==
    IF Len(t) = 0 THEN t
    ELSE LET lines == IF maxChars > 0 THEN splitIntoLinesByChars(t, maxChars) ELSE <<t>>
             processedLines == [k \in 1..Len(lines) |-> processLine(lines[k], m)]
         IN  Join(processedLines, <<10>>)

-----------------------------------------------------------------------------
(* Inputs.                                                                 *)

\* ALEF and BEH in every recorded form, two Latin-script code points and an
\* Arabic-Indic digit (Arabic script, but no letter)
ShapeRunes ==
    {\h0627, \hFE8D, \hFE8E, \h0628, \hFE8F, \hFE90, \hFE91, \hFE92, 97, 49, \h0661}

ShapeTexts == UNION {[1..n -> ShapeRunes] : n \in 0..MaxLen}

\* "abcd", "c", "a1", "12", Arabic-Indic "12", BEH ALEF, BEH "a", a
\* Bengali digit (a decimal digit outside the Arabic script ranges) and
\* Extended Arabic-Indic "12" (decimal digits inside the Arabic script
\* ranges that are not Arabic-Indic digits)
WordPool ==
    { <<97, 98, 99, 100>>, <<99>>, <<97, 49>>, <<49, 50>>, <<\h0661, \h0662>>,
      <<\h0628, \h0627>>, <<\h0628, 97>>, <<\h09E6>>, <<\h06F1, \h06F2>> }

\* white space between two words: a space, or a tab and a space
Separators == { <<32>>, <<9, 32>> }

BidiTexts ==
    {Join(ws, sep) : ws \in UNION {[1..n -> WordPool] : n \in 0..MaxWords}, sep \in Separators}

Threads == 1..NumThreads

\* the texts of the concurrent callers: empty, BEH, initial-form BEH, "a",
\* a Bengali digit
CallerTexts == { <<>>, <<\h0628>>, <<\hFE91>>, <<97>>, <<\h09E6>> }

\* the flags of a goroutine that has not read the map yet: isArabicWord
\* starts false (line 267), isEnglish true (line 301)
NothingSeen == [arabicWord |-> FALSE, english |-> TRUE]

\* a position in FixBidiText; k is the range loop of fillIsArabicMap that
\* runs next (0 outside fillIsArabicMap's loops)
At(where) == [at |-> where, k |-> 0]

-----------------------------------------------------------------------------
(* State machine: one call of a library function on a drawn input, and a   *)
(* second application to the result where a round trip is of interest.     *)

IdleThreads ==
    /\ isArabic = NilMap
    /\ pc = [t \in Threads |-> At("idle")]
    /\ word = [t \in Threads |-> <<>>]
    /\ seen = [t \in Threads |-> NothingSeen]
    /\ makeCount = 0
    /\ crashed = FALSE

threadVars == <<pc, word, seen, makeCount, crashed>>

InitShape ==
    /\ text \in ShapeTexts
    /\ maxCharsPerLine = 0
    /\ op = "idle"
    /\ out = <<>>
    /\ out2 = <<>>
    /\ IdleThreads

CallToGlyph ==
    /\ op = "idle"
    /\ out' = ToGlyph(text)
    /\ op' = "ToGlyph"
    /\ UNCHANGED <<text, maxCharsPerLine, out2, isArabic, threadVars>>

CallToGlyphAgain ==
    /\ op = "ToGlyph"
    /\ out2' = ToGlyph(out)
    /\ op' = "ToGlyphTwice"
    /\ UNCHANGED <<text, maxCharsPerLine, out, isArabic, threadVars>>

CallReverse ==
    /\ op = "idle"
    /\ out' = Reverse(text)
    /\ op' = "Reverse"
    /\ UNCHANGED <<text, maxCharsPerLine, out2, isArabic, threadVars>>

CallReverseAgain ==
    /\ op = "Reverse"
    /\ out2' = Reverse(out)
    /\ op' = "ReverseTwice"
    /\ UNCHANGED <<text, maxCharsPerLine, out, isArabic, threadVars>>

NextShape == CallToGlyph \/ CallToGlyphAgain \/ CallReverse \/ CallReverseAgain

SpecShape == InitShape /\ [][NextShape]_vars

InitBidi ==
    /\ text \in BidiTexts
    /\ maxCharsPerLine \in -1..MaxWidth
    /\ op = "idle"
    /\ out = <<>>
    /\ out2 = <<>>
    /\ IdleThreads

\* a whole sequential call: the early return on the empty text, else
\* fillIsArabicMap() and the loop over the lines
CallFixBidiText ==
    /\ op = "idle"
    /\ isArabic' = IF Len(text) = 0 THEN isArabic ELSE fillIsArabicMap(isArabic)
    /\ out' = FixBidiText(text, maxCharsPerLine, isArabic')
    /\ op' = "FixBidiText"
    /\ UNCHANGED <<text, maxCharsPerLine, out2, threadVars>>

NextBidi == CallFixBidiText

SpecBidi == InitBidi /\ [][NextBidi]_vars

-----------------------------------------------------------------------------
(* Vocabulary of the properties, in the terms of the specification.        *)

\* the code point matches some Letter Table entry in any of its five forms
IsLetter(r) ==
    \E k \in DOMAIN alphabet :
        r \in {alphabet[k].Unicode, alphabet[k].Isolated, alphabet[k].Beggining,
               alphabet[k].Medium, alphabet[k].Final}

\* the Letter the code point belongs to
LetterOf(r) ==
    CHOOSE L \in {alphabet[k] : k \in DOMAIN alphabet} :
        r \in {L.Unicode, L.Isolated, L.Beggining, L.Medium, L.Final}

\* the neighbours of position i of t, 0 standing for "none" at either end
PrevOf(t, i) == IF i = 1 THEN 0 ELSE t[i - 1]

NextOf(t, i) == IF i = Len(t) THEN 0 ELSE t[i + 1]

\* the code point lies in one of the Arabic script ranges
IsArabicScript(r) ==
    \E k \in DOMAIN ArabicRanges : r >= ArabicRanges[k].lo /\ r <= ArabicRanges[k].hi

\* an ASCII or Arabic-Indic decimal digit
IsDecimalDigit(r) == (r >= 48 /\ r <= 57) \/ (r >= \h0660 /\ r <= \h0669)

\* the class of a word: numeric first, then Arabic, else other
ClassOf(w) ==
    IF \A k \in 1..Len(w) : IsDecimalDigit(w[k]) THEN "numeric"
    ELSE IF \E k \in 1..Len(w) : IsArabicScript(w[k]) THEN "arabic"
    ELSE "other"

\* a sequence of code points cut at every line break
RECURSIVE SplitAtBreaks(_, _, _, _)
SplitAtBreaks(s, i, cur, acc) ==
    IF i > Len(s) THEN Append(acc, cur)
    ELSE IF s[i] = 10 THEN SplitAtBreaks(s, i + 1, <<>>, Append(acc, cur))
    ELSE SplitAtBreaks(s, i + 1, Append(cur, s[i]), acc)

LinesOf(s) == SplitAtBreaks(s, 1, <<>>, <<>>)

\* the lines FixBidiText works on, and the lines of what it returned
InLines == IF maxCharsPerLine > 0 THEN splitIntoLinesByChars(text, maxCharsPerLine) ELSE <<text>>

OutLines == LinesOf(out)

\* the number of words on the first l lines of the result
RECURSIVE WordsBefore(_)
WordsBefore(l) == IF l = 0 THEN 0 ELSE WordsBefore(l - 1) + Len(Fields(OutLines[l]))

-----------------------------------------------------------------------------
(* Properties of shaping and reversal, under SpecShape.                    *)

\* C2: shaping an already shaped text returns it unchanged:
\* ToGlyph(ToGlyph(w)) = ToGlyph(w) for letters in any form, non-letters
\* and mixtures.
ShapingIdempotent == op = "ToGlyphTwice" => out2 = out

\* a text holding a presentation form next to another letter was shaped,
\* changed, and shaped again
ShapingIdempotentWitness ==
    /\ op = "ToGlyphTwice"
    /\ out # text
    /\ \E i \in 1..Len(text) - 1 :
        /\ IsLetter(text[i]) /\ text[i] # LetterOf(text[i]).Unicode
        /\ IsLetter(text[i + 1])
    /\ \E i \in 1..Len(text) : ~IsLetter(text[i])

\* C6: ToGlyph returns as many code points as it was given, the i-th being
\* the glyph chosen for the i-th input code point and its two neighbours.
LengthOrderPreserved ==
    op = "ToGlyph" =>
        /\ Len(out) = Len(text)
        /\ \A i \in 1..Len(text) :
              out[i] = getCharGlyph(PrevOf(text, i), text[i], NextOf(text, i))

\* a text of three code points, some of them reshaped, went through ToGlyph
LengthOrderPreservedWitness ==
    /\ op = "ToGlyph"
    /\ Len(text) >= 3
    /\ out # text
    /\ out[Len(text)] # text[Len(text)]

\* C7: a code point that matches no Letter Table entry is output unchanged
\* whatever its neighbours, also at both ends of the text; a text with no
\* Arabic-script code point is returned as it is.
PassThrough ==
    op = "ToGlyph" =>
        /\ Len(out) = Len(text)
        /\ \A i \in 1..Len(text) : ~IsLetter(text[i]) => out[i] = text[i]
        /\ (\A i \in 1..Len(text) : ~IsArabicScript(text[i])) => out = text

\* a non-letter stood first, before a letter that was reshaped, and another
\* stood last
PassThroughWitness ==
    /\ op = "ToGlyph"
    /\ Len(text) >= 3
    /\ ~IsLetter(text[1]) /\ ~IsLetter(text[Len(text)])
    /\ IsLetter(text[2]) /\ out[2] # text[2]
    /\ out[1] = text[1]

\* C8: Reverse returns a sequence of the same length whose element i is
\* element len-1-i of its argument, and reversing twice gives the argument.
ReverseReverses ==
    /\ op = "Reverse" =>
          /\ Len(out) = Len(text)
          /\ \A i \in 0..Len(text) - 1 : out[i + 1] = text[(Len(text) - 1 - i) + 1]
    /\ op = "ReverseTwice" => out2 = text

\* a text that is no palindrome was reversed twice
ReverseReversesWitness ==
    /\ op = "ReverseTwice"
    /\ Len(text) >= 3
    /\ out # text
    /\ out2 = text

\* C10: the positional rule.  A letter between two letters takes its
\* initial form after a non-joining letter and its medial form otherwise;
\* with only the next a letter, its initial form; with only the previous a
\* letter, its isolated form after a non-joining letter and its final form
\* otherwise; with neither, its isolated form.
PositionalRule ==
    op = "ToGlyph" =>
        \A i \in 1..Len(text) :
            IsLetter(text[i]) =>
                LET L            == LetterOf(text[i])
                    prevIsLetter == i > 1 /\ IsLetter(text[i - 1])
                    nextIsLetter == i < Len(text) /\ IsLetter(text[i + 1])
                    prevNonJoin  == prevIsLetter /\ LetterOf(text[i - 1]) \in beggining_after
                IN  /\ i \in DOMAIN out
                    /\ out[i] = IF prevIsLetter /\ nextIsLetter
                                THEN (IF prevNonJoin THEN L.Beggining ELSE L.Medium)
                                ELSE IF nextIsLetter THEN L.Beggining
                                ELSE IF prevIsLetter
                                THEN (IF prevNonJoin THEN L.Isolated ELSE L.Final)
                                ELSE L.Isolated

\* BEH ALEF BEH was shaped: initial BEH, medial ALEF, and BEH isolated
\* after the non-joining ALEF
PositionalRuleWitness ==
    /\ op = "ToGlyph"
    /\ text = <<\h0628, \h0627, \h0628>>
    /\ out = <<\hFE91, \hFE8E, \hFE8F>>

-----------------------------------------------------------------------------
(* Properties of FixBidiText, under SpecBidi.                              *)

\* the text is one line <other word> <Arabic word> <other word>, not wrapped
LatinArabicLatin ==
    /\ op = "FixBidiText"
    /\ maxCharsPerLine <= 0
    /\ Len(Fields(text)) = 3
    /\ ClassOf(Fields(text)[1]) = "other"
    /\ ClassOf(Fields(text)[2]) = "arabic"
    /\ ClassOf(Fields(text)[3]) = "other"

\* C1 as stated: for a line <other> <Arabic> <other> the result holds the
\* first other word, the shaped and reversed Arabic word, and the second
\* other word, in that order.
WordOrderKept ==
    LatinArabicLatin =>
        Fields(out) = <<Fields(text)[1], Reverse(ToGlyph(Fields(text)[2])), Fields(text)[3]>>

\* every code point of the word is a decimal digit of some script
\* (Unicode category Nd)
AllDecimalDigits(w) == \A k \in 1..Len(w) : IsDigit(w[k])

\* C1 as amended: for a line <other> <Arabic> <other> the result is the
\* second other word, the middle word and the first other word, joined by
\* single spaces: the two other words swap places around the middle word,
\* which is shaped and reversed unless all its code points are decimal
\* digits of some script, and is then left as it is.
WordOrderSwapped ==
    LatinArabicLatin =>
        LET w      == Fields(text)
            middle == IF AllDecimalDigits(w[2]) THEN w[2] ELSE Reverse(ToGlyph(w[2]))
        IN  out = Join(<<w[3], middle, w[1]>>, <<32>>)

\* "abcd" BEH-ALEF "c" was reordered
WordOrderSwappedWitness ==
    /\ LatinArabicLatin
    /\ Fields(text) = <<<<97, 98, 99, 100>>, <<\h0628, \h0627>>, <<99>>>>
    /\ out = <<99, 32, \hFE8E, \hFE91, 32, 97, 98, 99, 100>>

\* C4: with maxCharsPerLine > 0 every line of the result has at most
\* maxCharsPerLine code points, except a line made of one word that is
\* itself longer, which keeps the length the word had in the input.
LineWrapBound ==
    (op = "FixBidiText" /\ maxCharsPerLine > 0) =>
        /\ WordsBefore(Len(OutLines)) = Len(Fields(text))
        /\ \A l \in 1..Len(OutLines) :
              \/ Len(OutLines[l]) <= maxCharsPerLine
              \/ /\ Len(Fields(OutLines[l])) = 1
                 /\ Len(OutLines[l]) = Len(Fields(text)[WordsBefore(l - 1) + 1])
                 /\ Len(Fields(text)[WordsBefore(l - 1) + 1]) > maxCharsPerLine

\* a text was wrapped into a full line of two words, and a word longer than
\* the width took a line of its own
LineWrapBoundWitness ==
    /\ op = "FixBidiText"
    /\ maxCharsPerLine > 0
    /\ Len(OutLines) >= 2
    /\ \E l \in 1..Len(OutLines) :
          Len(OutLines[l]) = maxCharsPerLine /\ Len(Fields(OutLines[l])) = 2
    /\ \E l \in 1..Len(OutLines) : Len(OutLines[l]) > maxCharsPerLine

\* C5: a word all of whose code points are ASCII or Arabic-Indic digits
\* comes out with exactly its input code points, at the place the reversal
\* of the word order gives it, whatever words surround it.
NumericUnchanged ==
    op = "FixBidiText" =>
        \A l \in 1..Len(InLines) :
            LET ws == Fields(InLines[l])
            IN  \A i \in 1..Len(ws) :
                    ClassOf(ws[i]) = "numeric" =>
                        /\ l \in DOMAIN OutLines
                        /\ Len(Fields(OutLines[l])) = Len(ws)
                        /\ Fields(OutLines[l])[Len(ws) + 1 - i] = ws[i]

\* an Arabic-Indic number stood between an Arabic word and a Latin word
NumericUnchangedWitness ==
    /\ op = "FixBidiText"
    /\ Fields(text) = <<<<\h0628, \h0627>>, <<\h0661, \h0662>>, <<99>>>>
    /\ Fields(out) = <<<<99>>, <<\h0661, \h0662>>, <<\hFE8E, \hFE91>>>>

\* C9 as stated: on every line, a word classed numeric or Arabic keeps the
\* place the reversal of the word order gave it, and every maximal run of
\* consecutive words classed other comes out in its input order, at the
\* places the reversal gave the run.
RunsRestored ==
    op = "FixBidiText" =>
        \A l \in 1..Len(InLines) :
            LET ws == Fields(InLines[l])
                n  == Len(ws)
                os == Fields(OutLines[l])
                other(k) == ClassOf(ws[k]) = "other"
            IN  /\ Len(os) = n
                /\ \A i \in 1..n :
                      ~other(i) =>
                          os[n + 1 - i] = IF ClassOf(ws[i]) = "numeric" THEN ws[i]
                                          ELSE Reverse(ToGlyph(ws[i]))
                /\ \A a \in 1..n : \A b \in a..n :
                      ( /\ \A k \in a..b : other(k)
                        /\ (a = 1 \/ ~other(a - 1))
                        /\ (b = n \/ ~other(b + 1)) )
                      => \A k \in a..b : os[(n + 1 - b) + (k - a)] = ws[k]

-----------------------------------------------------------------------------
(* Concurrent callers.  Several goroutines call FixBidiText before the     *)
(* isArabic map exists.  The source takes no lock, so the statements that  *)
(* touch the package variable interleave: the nil test, the make, each of  *)
(* the six range loops, and the reads of the word classification.  Go      *)
(* declares unsynchronised access to a map a data race; the runtime may    *)
(* abort the process when it detects it, or let the access go through.     *)

InitConc ==
    /\ text = <<>>
    /\ maxCharsPerLine = 0
    /\ op = "idle"
    /\ out = <<>>
    /\ out2 = <<>>
    /\ isArabic = NilMap
    /\ pc = [t \in Threads |-> At("idle")]
    /\ word \in [Threads -> CallerTexts]
    /\ seen = [t \in Threads |-> NothingSeen]
    /\ makeCount = 0
    /\ crashed = FALSE

seqVars == <<text, maxCharsPerLine, op, out, out2>>

\* FixBidiText is entered: `if len(text) == 0 { return text }`
Enter(t) ==
    /\ ~crashed
    /\ pc[t].at = "idle"
    /\ pc' = [pc EXCEPT ![t] = IF Len(word[t]) = 0 THEN At("done") ELSE At("check")]
    /\ UNCHANGED <<seqVars, isArabic, word, seen, makeCount, crashed>>

\* fillIsArabicMap: `if isArabic != nil { return }`
CheckNil(t) ==
    /\ ~crashed
    /\ pc[t].at = "check"
    /\ pc' = [pc EXCEPT ![t] = IF isArabic.made THEN At("classify") ELSE At("make")]
    /\ UNCHANGED <<seqVars, isArabic, word, seen, makeCount, crashed>>

\* fillIsArabicMap: `isArabic = make(map[rune]bool)`
Make(t) ==
    /\ ~crashed
    /\ pc[t].at = "make"
    /\ isArabic' = EmptyMap
    /\ makeCount' = makeCount + 1
    /\ pc' = [pc EXCEPT ![t] = [at |-> "fill", k |-> 1]]
    /\ UNCHANGED <<seqVars, word, seen, crashed>>

\* fillIsArabicMap: one of the six range loops stores its code points in
\* the map the package variable refers to now
Fill(t) ==
    /\ ~crashed
    /\ pc[t].at = "fill"
    /\ isArabic' = [isArabic EXCEPT !.filled = @ \cup {pc[t].k}]
    /\ pc' = [pc EXCEPT ![t] = IF pc[t].k = Len(ArabicRanges) THEN At("classify")
                               ELSE [at |-> "fill", k |-> pc[t].k + 1]]
    /\ UNCHANGED <<seqVars, word, seen, makeCount, crashed>>

\* the loop over the word's runes reading isArabic[r] (lines 271-278)
Classify(t) ==
    /\ ~crashed
    /\ pc[t].at = "classify"
    /\ seen' = [seen EXCEPT ![t].arabicWord = isArabicWord(word[t], isArabic)]
    /\ pc' = [pc EXCEPT ![t] = At("rescan")]
    /\ UNCHANGED <<seqVars, isArabic, word, makeCount, crashed>>

\* the word as the switch of lines 280-290 leaves it, given the flag the
\* goroutine computed
Processed(t) ==
    IF isNumericWord(word[t]) THEN word[t]
    ELSE IF seen[t].arabicWord THEN Reverse(ToGlyph(word[t]))
    ELSE word[t]

\* the second loop reads isArabic[r] again for the runes of the processed
\* word (lines 302-307); the call returns after it
Rescan(t) ==
    /\ ~crashed
    /\ pc[t].at = "rescan"
    /\ seen' = [seen EXCEPT ![t].english = isEnglish(Processed(t), isArabic)]
    /\ pc' = [pc EXCEPT ![t] = At("done")]
    /\ UNCHANGED <<seqVars, isArabic, word, makeCount, crashed>>

\* goroutine t is storing into the map while another one stores into it or
\* reads it: the runtime may throw "concurrent map writes" or "concurrent
\* map read and map write", which ends the process
Abort(t) ==
    /\ ~crashed
    /\ pc[t].at = "fill"
    /\ \E u \in Threads \ {t} : pc[u].at \in {"fill", "classify", "rescan"}
    /\ crashed' = TRUE
    /\ UNCHANGED <<seqVars, isArabic, pc, word, seen, makeCount>>

NextConc ==
    \E t \in Threads :
        Enter(t) \/ CheckNil(t) \/ Make(t) \/ Fill(t) \/ Classify(t) \/ Rescan(t) \/ Abort(t)

SpecConc == InitConc /\ [][NextConc]_vars

\* C3 as stated: the map is constructed at most once, a goroutine about to
\* read it for a word finds every Arabic script range in it while no
\* goroutine is still constructing or filling it, the runtime never aborts
\* on a concurrent access, and the flags every call computed are the true
\* ones.
InitialisedOnce ==
    /\ makeCount <= 1
    /\ ~crashed
    /\ \A t \in Threads :
          /\ pc[t].at \in {"classify", "rescan"} =>
                /\ isArabic = FullMap
                /\ \A u \in Threads : pc[u].at \notin {"make", "fill"}
          /\ (pc[t].at = "done" /\ Len(word[t]) > 0) =>
                /\ seen[t].arabicWord = \E k \in 1..Len(word[t]) : IsArabicScript(word[t][k])
                /\ seen[t].english = isEnglish(processWord(word[t], FullMap), FullMap)

=============================================================================
